---- MODULE Spec2Model ----
(***************************************************************************)
(* A model of contrib/QPMMock.py: the QPMMockDataSource plugin, which      *)
(* reads a periodic-box mock catalogue (x y z vx vy vz per line), moves it *)
(* to redshift space along one axis and rescales box and positions by the  *)
(* Alcock-Paczynski factors qpar and qperp.                                *)
(*                                                                         *)
(* The arithmetic of the source is IEEE-754 binary floating point: the     *)
(* box size is a float64 array, the positions and velocities are float32   *)
(* arrays ('f4').  A floating point number is modelled exactly, as a sign, *)
(* an odd natural mantissa and a binary exponent, and every operation is   *)
(* the exact operation followed by rounding to nearest, ties to even, at   *)
(* the precision of the array it is stored in.  Mantissas are naturals in  *)
(* base 2^15 (least significant limb first), since a float64 mantissa does *)
(* not fit a machine integer of the model checker.  Exponent range         *)
(* (overflow to infinity, subnormals) is not modelled: every value of the  *)
(* model is far inside the range of float32.                               *)
(***************************************************************************)
EXTENDS Integers, Sequences, FiniteSets, TLC

(***************************************************************************)
(* Naturals of any size: sequences of limbs in 0..Base-1, least            *)
(* significant first, no leading zero limb; zero is the empty sequence.    *)
(***************************************************************************)
Base == 2^15

RECURSIVE BTrim(_)
BTrim(a) ==
    IF a = <<>> THEN a
    ELSE IF a[Len(a)] = 0 THEN BTrim(SubSeq(a, 1, Len(a) - 1)) ELSE a

RECURSIVE BAddC(_, _, _)
BAddC(a, b, c) ==
    IF a = <<>> /\ b = <<>> THEN (IF c = 0 THEN <<>> ELSE <<c>>)
    ELSE LET x == IF a = <<>> THEN 0 ELSE Head(a)
             y == IF b = <<>> THEN 0 ELSE Head(b)
             t == x + y + c
         IN  <<t % Base>> \o BAddC(IF a = <<>> THEN a ELSE Tail(a),
                                   IF b = <<>> THEN b ELSE Tail(b),
                                   t \div Base)

BAdd(a, b) == BAddC(a, b, 0)

\* a - b for a >= b, limb by limb with borrow c.
RECURSIVE BSubC(_, _, _)
BSubC(a, b, c) ==
    IF a = <<>> THEN <<>>
    ELSE LET y == IF b = <<>> THEN 0 ELSE Head(b)
             t == Head(a) - y - c
         IN  <<(t + Base) % Base>> \o BSubC(Tail(a),
                                            IF b = <<>> THEN b ELSE Tail(b),
                                            IF t < 0 THEN 1 ELSE 0)

BSub(a, b) == BTrim(BSubC(a, b, 0))

RECURSIVE BCmpAt(_, _, _)
BCmpAt(a, b, i) ==
    IF i = 0 THEN 0
    ELSE IF a[i] > b[i] THEN 1
    ELSE IF a[i] < b[i] THEN -1
    ELSE BCmpAt(a, b, i - 1)

\* -1, 0 or 1 as a < b, a = b or a > b.
BCmp(a, b) ==
    IF Len(a) > Len(b) THEN 1
    ELSE IF Len(a) < Len(b) THEN -1
    ELSE BCmpAt(a, b, Len(a))

\* a * d + c for one limb d.
RECURSIVE BMulSmall(_, _, _)
BMulSmall(a, d, c) ==
    IF a = <<>> THEN (IF c = 0 THEN <<>> ELSE <<c>>)
    ELSE LET t == Head(a) * d + c
         IN  <<t % Base>> \o BMulSmall(Tail(a), d, t \div Base)

RECURSIVE BMul(_, _)
BMul(a, b) ==
    IF a = <<>> \/ b = <<>> THEN <<>>
    ELSE BAdd(BMulSmall(a, Head(b), 0), BTrim(<<0>> \o BMul(a, Tail(b))))

\* The limbs 1..i of a \div d for one limb d < 2^15, r the remainder so far.
RECURSIVE BDivAt(_, _, _, _)
BDivAt(a, d, i, r) ==
    IF i = 0 THEN <<>>
    ELSE LET t == r * Base + a[i]
         IN  BDivAt(a, d, i - 1, t % d) \o <<t \div d>>

\* a * 2^k and a \div 2^k.
BShl(a, k) ==
    IF a = <<>> THEN a
    ELSE [i \in 1..(k \div 15) |-> 0] \o BMulSmall(a, 2^(k % 15), 0)

BShr(a, k) ==
    IF k \div 15 >= Len(a) THEN <<>>
    ELSE LET hi == SubSeq(a, (k \div 15) + 1, Len(a))
         IN  BTrim(BDivAt(hi, 2^(k % 15), Len(hi), 0))

RECURSIVE BitLenSmall(_)
BitLenSmall(x) == IF x = 0 THEN 0 ELSE 1 + BitLenSmall(x \div 2)

\* The number of bits of a: 0 for zero.
BitLen(a) ==
    IF a = <<>> THEN 0 ELSE 15 * (Len(a) - 1) + BitLenSmall(a[Len(a)])

RECURSIVE TrailingZerosSmall(_)
TrailingZerosSmall(x) == IF x % 2 = 1 THEN 0 ELSE 1 + TrailingZerosSmall(x \div 2)

\* The number of trailing zero bits of a > 0.
RECURSIVE TrailingZeros(_)
TrailingZeros(a) ==
    IF Head(a) = 0 THEN 15 + TrailingZeros(Tail(a)) ELSE TrailingZerosSmall(Head(a))

\* a % b for b > 0, by long division from bit k of the quotient downwards.
RECURSIVE BModAt(_, _, _)
BModAt(a, b, k) ==
    LET t  == BShl(b, k)
        a1 == IF BCmp(a, t) >= 0 THEN BSub(a, t) ELSE a
    IN  IF BCmp(a, t) >= 0 /\ k = 0 THEN a1
        ELSE IF k = 0 THEN a
        ELSE BModAt(a1, b, k - 1)

BMod(a, b) ==
    IF BitLen(a) < BitLen(b) THEN a ELSE BModAt(a, b, BitLen(a) - BitLen(b))

\* <<a \div 10^n, whether the division is exact>>.
RECURSIVE BDivPow10(_, _)
BDivPow10(a, n) ==
    IF n = 0 THEN <<a, TRUE>>
    ELSE LET r == BDivPow10(a, n - 1)
             q == BTrim(BDivAt(r[1], 10, Len(r[1]), 0))
         IN  <<q, r[2] /\ BMulSmall(q, 10, 0) = r[1]>>

(***************************************************************************)
(* Floating point values.  A finite value is (-1)^s * m * 2^e with m odd   *)
(* (or zero, written Zero); NaN is the value pandas gives a missing field. *)
(***************************************************************************)
Zero == [k |-> "fin", s |-> 0, m |-> <<>>, e |-> 0]

NaN == [k |-> "nan", s |-> 0, m |-> <<>>, e |-> 0]

IsNaN(a) == a.k = "nan"

\* The value (-1)^s * m * 2^e in canonical form (m odd).
Fin(s, m, e) ==
    IF m = <<>> THEN Zero
    ELSE LET tz == TrailingZeros(m)
         IN  [k |-> "fin", s |-> s, m |-> BShr(m, tz), e |-> e + tz]

\* (-1)^s * n * 2^e for a natural n below 2^15.
Dy(s, n, e) == Fin(s, IF n = 0 THEN <<>> ELSE <<n>>, e)

DNeg(a) == IF a.m = <<>> THEN a ELSE [a EXCEPT !.s = 1 - a.s]

\* Exact product and exact sum of finite values.
DMul(a, b) == Fin((a.s + b.s) % 2, BMul(a.m, b.m), a.e + b.e)

DAdd(a, b) ==
    IF a.m = <<>> THEN b
    ELSE IF b.m = <<>> THEN a
    ELSE LET e  == IF a.e < b.e THEN a.e ELSE b.e
             x  == BShl(a.m, a.e - e)
             y  == BShl(b.m, b.e - e)
         IN  IF a.s = b.s THEN Fin(a.s, BAdd(x, y), e)
             ELSE IF BCmp(x, y) >= 0 THEN Fin(a.s, BSub(x, y), e)
             ELSE Fin(b.s, BSub(y, x), e)

IsNeg(a) == a.m # <<>> /\ a.s = 1

\* a < b for finite values.
DLess(a, b) == IsNeg(DAdd(a, DNeg(b)))

\* C's fmod(a, b) for finite a and finite b # 0: exact, with the sign of a.
DFmod(a, b) ==
    IF a.m = <<>> THEN Zero
    ELSE LET e == IF a.e < b.e THEN a.e ELSE b.e
             x == BShl(a.m, a.e - e)
             y == BShl(b.m, b.e - e)
         IN  Fin(a.s, BMod(x, y), e)

\* A finite value rounded to P bits of mantissa, to nearest, ties to even.
Round(P, a) ==
    IF BitLen(a.m) <= P THEN a
    ELSE LET sh   == BitLen(a.m) - P
             q    == BShr(a.m, sh)
             r    == BSub(a.m, BShl(q, sh))
             c    == BCmp(r, BShl(<<1>>, sh - 1))
             up   == c > 0 \/ (c = 0 /\ Head(q) % 2 = 1)
         IN  Fin(a.s, IF up THEN BAdd(q, <<1>>) ELSE q, a.e + sh)

\* The decimal literal digits * 10^(-places) as the nearest value of P bits
\* (how Python reads a float literal).
RECURSIVE BFromDigits(_, _)
BFromDigits(digits, acc) ==
    IF digits = <<>> THEN acc
    ELSE BFromDigits(Tail(digits), BMulSmall(acc, 10, Head(digits)))

FromDecimal(P, digits, places) ==
    LET n  == BFromDigits(digits, <<>>)
        sh == P + 2 + 4 * places
        qr == BDivPow10(BShl(n, sh), places)
        \* a sticky bit below the quotient keeps the rounding exact
        m  == BAdd(BMulSmall(qr[1], 2, 0), IF qr[2] THEN <<>> ELSE <<1>>)
    IN  Round(P, Fin(0, m, -(sh + 1)))

\* float32 ('f4', 24 bits) and float64 (53 bits) arithmetic of numpy.
F4 == 24

F8 == 53

\* x.astype(P): a conversion to the precision P.
AsType(P, a) == IF IsNaN(a) THEN NaN ELSE Round(P, a)

\* a * b stored at precision P (the operands are converted to P first).
FMul(P, a, b) ==
    IF IsNaN(a) \/ IsNaN(b) THEN NaN ELSE Round(P, DMul(Round(P, a), Round(P, b)))

FAdd(P, a, b) ==
    IF IsNaN(a) \/ IsNaN(b) THEN NaN ELSE Round(P, DAdd(Round(P, a), Round(P, b)))

\* numpy's a % b on floats (npy_remainder): fmod, then b is added when the
\* result is not zero and its sign differs from that of b.  In
\* pos[:, dir] %= self._BoxSize0[dir] the float64 scalar takes the type of
\* the float32 array, so the sum is rounded to float32.
FRemainder(P, a, b) ==
    IF IsNaN(a) \/ IsNaN(b) \/ Round(P, b).m = <<>> THEN NaN
    ELSE LET r == DFmod(Round(P, a), Round(P, b))
         IN  IF r.m # <<>> /\ r.s # Round(P, b).s
             THEN Round(P, DAdd(r, Round(P, b)))
             ELSE r

(***************************************************************************)
(* The plugin's class attributes and the inputs of the model.              *)
(***************************************************************************)
\* qpar = 0.9851209643 and qperp = 0.9925056798: Python floats (float64).
qpar == FromDecimal(F8, <<9, 8, 5, 1, 2, 0, 9, 6, 4, 3>>, 10)

qperp == FromDecimal(F8, <<9, 9, 2, 5, 0, 5, 6, 7, 9, 8>>, 10)

\* The columns read_csv is asked for (names and usecols).
Names == <<"x", "y", "z", "vx", "vy", "vz">>

\* The choices of -rsd; "none" is the default, None.
RsdChoices == {"none", "x", "y", "z"}

\* 'xyz'.index(rsd), counted from 1.
Dir(rsd) == CHOOSE i \in 1..3 : <<"x", "y", "z">>[i] = rsd

\* A field of a line that is no number ("abc").
Str == [k |-> "str", s |-> 0, m |-> <<>>, e |-> 0]

One == Dy(0, 1, 0)

\* 2^-30: a tiny speed, about 9.3e-10.
Tiny == Dy(1, 1, -30)

Row(fields) == [comment |-> FALSE, fields |-> fields]

Comment == [comment |-> TRUE, fields |-> <<>>]

\* The numbers of catalogue files and of box sizes the model considers.
NumPaths == 4

NumBoxes == 2

\* The text of the catalogue at each path, line by line; a field is the
\* float64 the text denotes, or Str.  No line has more than six fields.
Catalogue(path) ==
    CASE path = 1 ->
           \* 0 0 0 1 0 0 / 5 5 5 0 1 0
           << Row(<<Zero, Zero, Zero, One, Zero, Zero>>),
              Row(<<Dy(0, 5, 0), Dy(0, 5, 0), Dy(0, 5, 0), Zero, One, Zero>>) >>
      [] path = 2 ->
           \* a comment, then 0 0 0 -2^-30 -2^-30 -2^-30 / -3 12.5 0.1 -25.75 4 -0.5
           << Comment,
              Row(<<Zero, Zero, Zero, Tiny, Tiny, Tiny>>),
              Row(<<Dy(1, 3, 0), Dy(0, 25, -1), FromDecimal(F8, <<1>>, 1),
                    Dy(1, 103, -2), Dy(0, 4, 0), Dy(1, 1, -1)>>) >>
      [] path = 3 ->
           \* 1 2 3 4 5 (five fields) / 5 5 5 0 1 0
           << Row(<<One, Dy(0, 2, 0), Dy(0, 3, 0), Dy(0, 4, 0), Dy(0, 5, 0)>>),
              Row(<<Dy(0, 5, 0), Dy(0, 5, 0), Dy(0, 5, 0), Zero, One, Zero>>) >>
      [] path = 4 ->
           \* 1 2 abc 4 5 6
           << Row(<<One, Dy(0, 2, 0), Str, Dy(0, 4, 0), Dy(0, 5, 0), Dy(0, 6, 0)>>) >>
      [] OTHER ->
           \* 9.5 0 11 3 -12 0.5 / a comment / 1 2 3 / 7 8 9 -8 -9 -10
           << Row(<<Dy(0, 19, -1), Zero, Dy(0, 11, 0), Dy(0, 3, 0), Dy(1, 12, 0), Dy(0, 1, -1)>>),
              Comment,
              Row(<<One, Dy(0, 2, 0), Dy(0, 3, 0)>>),
              Row(<<Dy(0, 7, 0), Dy(0, 8, 0), Dy(0, 9, 0), Dy(1, 8, 0), Dy(1, 9, 0), Dy(1, 10, 0)>>) >>

\* The box sizes BoxSizeParser may give: a float64 array of three positive lengths.
BoxChoice(i) ==
    CASE i = 1 -> <<Dy(0, 10, 0), Dy(0, 10, 0), Dy(0, 10, 0)>>
      [] i = 2 -> <<Dy(0, 8, 0), Dy(0, 10, 0), Dy(0, 12, 0)>>
      [] OTHER -> <<Dy(0, 5, -1), Dy(0, 5, 0), Dy(0, 15, -1)>>

\* The parsed command line: path, BoxSize, -scaled, -rsd, -velf.
Args ==
    [path : 1..NumPaths, BoxSize : {BoxChoice(i) : i \in 1..NumBoxes},
     scaled : BOOLEAN, rsd : RsdChoices, velf : {One, Dy(0, 2, 0)}]

\* What a caller may ask readall for.
ColumnChoices ==
    { <<"Position", "Velocity", "Weight">>, <<"Weight", "Position">>,
      <<"Position", "Mass">> }

Ranks == {0, 1}

BunchSizes == {1, 4}

(***************************************************************************)
(* The state: one plugin instance and what its caller has seen.            *)
(***************************************************************************)
VARIABLES
    args,          \* the parsed arguments the host holds for this instance
    pandas,        \* whether pandas can be imported in this process
    self,          \* the attributes of the QPMMockDataSource instance
    out,           \* what the latest readall since the latest initialize gave
    ref,           \* what the first readall of this instance gave
    reconfigured,  \* initialize has run again since that first readall
    again,         \* readall has run more than once since the latest initialize
    conf,          \* the attributes as the latest initialize left them
    first          \* the attributes as the first initialize left them

vars == <<args, pandas, self, out, ref, reconfigured, again, conf, first>>

\* An instance before initialize: no attribute is bound yet.
NewInstance ==
    [configured |-> FALSE, path |-> 0, BoxSize |-> <<>>, BoxSize0 |-> <<>>,
     scaled |-> FALSE, rsd |-> "none", velf |-> Zero]

NoOut == [status |-> "none", columns |-> <<>>, batches |-> <<>>, log |-> <<>>]

NoRef == [status |-> "none", columns |-> <<>>, batches |-> <<>>]

\* DataSource.initialize of the base class (nbodykit.extensionpoints), which
\* is not among the sources modelled here: as the design describes configure,
\* it binds each configured value as an attribute of the instance, so a
\* second call binds the configured box size again.
BaseInitialize(obj, a) ==
    [obj EXCEPT !.configured = TRUE, !.path = a.path, !.BoxSize = a.BoxSize,
                !.scaled = a.scaled, !.rsd = a.rsd, !.velf = a.velf]

\* initialize with the two factors exchanged: qperp on the rsd axis, qpar on
\* the others.
initialize_swapped(obj, a) ==
    LET base == BaseInitialize(obj, a)
        box  == IF base.scaled
                THEN IF base.rsd = "none"
                     THEN [i \in 1..3 |-> FMul(F8, base.BoxSize[i], qperp)]
                     ELSE [i \in 1..3 |->
                              IF i = Dir(base.rsd)
                              THEN FMul(F8, base.BoxSize[i], qperp)
                              ELSE FMul(F8, base.BoxSize[i], qpar)]
                ELSE base.BoxSize
    IN  [base EXCEPT !.BoxSize0 = base.BoxSize, !.BoxSize = box]

\* initialize that does not call the base class again on an instance that is
\* configured: it copies and rescales the box size the instance holds.
initialize_keep(obj, a) ==
    LET base == IF obj.configured THEN obj ELSE BaseInitialize(obj, a)
        box  == IF base.scaled
                THEN IF base.rsd = "none"
                     THEN [i \in 1..3 |-> FMul(F8, base.BoxSize[i], qperp)]
                     ELSE [i \in 1..3 |->
                              IF i = Dir(base.rsd)
                              THEN FMul(F8, base.BoxSize[i], qpar)
                              ELSE FMul(F8, base.BoxSize[i], qperp)]
                ELSE base.BoxSize
    IN  [base EXCEPT !.BoxSize0 = base.BoxSize, !.BoxSize = box]

\* QPMMockDataSource.initialize: the attributes of obj afterwards.
initialize(obj, a) ==
    LET base == BaseInitialize(obj, a)
        box  == IF base.scaled
                THEN IF base.rsd = "none"
                     THEN [i \in 1..3 |-> FMul(F8, base.BoxSize[i], qperp)]
                     ELSE [i \in 1..3 |->
                              IF i = Dir(base.rsd)
                              THEN FMul(F8, base.BoxSize[i], qpar)
                              ELSE FMul(F8, base.BoxSize[i], qperp)]
                ELSE base.BoxSize
    IN  [base EXCEPT !.BoxSize0 = base.BoxSize, !.BoxSize = box]

IsData(line) == ~line.comment

\* read_csv that skips a line of fewer fields than Names.
read_csv_skipshort(lines) ==
    LET data == SelectSeq(lines, LAMBDA l : ~l.comment /\ Len(l.fields) = Len(Names))
    IN  [i \in 1..Len(data) |-> [j \in 1..Len(Names) |-> data[i].fields[j]]]

\* pd.read_csv(path, comment='#', names=Names, header=None, delim_whitespace=True,
\* usecols=Names): one row per line that is no comment, a line of fewer
\* fields than Names filled with NaN.
read_csv(lines) ==
    LET data == SelectSeq(lines, IsData)
    IN  [i \in 1..Len(data) |->
            [j \in 1..Len(Names) |->
                IF j <= Len(data[i].fields) THEN data[i].fields[j] ELSE NaN]]

\* data[cols].values.astype('f4') raises ValueError on a field that is no number.
Converts(data, cols) ==
    \A i \in 1..Len(data) : \A j \in 1..3 : data[i][cols[j]].k # "str"

AsF4(data, cols) ==
    [i \in 1..Len(data) |-> [j \in 1..3 |-> AsType(F4, data[i][cols[j]])]]

\* vel *= self.velf
ScaleVelocity(vel, velf) ==
    [i \in 1..Len(vel) |-> [j \in 1..3 |-> FMul(F4, vel[i][j], velf)]]

\* The wrap taken modulo the rescaled box, self.BoxSize.
RedshiftSpace_working(obj, pos, vel) ==
    IF obj.rsd # "none"
    THEN [i \in 1..Len(pos) |-> [j \in 1..3 |->
             IF j = Dir(obj.rsd)
             THEN FRemainder(F4, FAdd(F4, pos[i][j], vel[i][j]), obj.BoxSize[j])
             ELSE pos[i][j]]]
    ELSE pos

\* pos[:, dir] += vel[:, dir]; pos[:, dir] %= self._BoxSize0[dir]
RedshiftSpace(obj, pos, vel) ==
    IF obj.rsd # "none"
    THEN [i \in 1..Len(pos) |-> [j \in 1..3 |->
             IF j = Dir(obj.rsd)
             THEN FRemainder(F4, FAdd(F4, pos[i][j], vel[i][j]), obj.BoxSize0[j])
             ELSE pos[i][j]]]
    ELSE pos

\* The rescaling done whether or not scaled is set.
Rescale_always(obj, pos) ==
    IF obj.rsd = "none"
    THEN [i \in 1..Len(pos) |-> [j \in 1..3 |-> FMul(F4, pos[i][j], qperp)]]
    ELSE [i \in 1..Len(pos) |-> [j \in 1..3 |->
             IF j = Dir(obj.rsd)
             THEN FMul(F4, pos[i][j], qpar)
             ELSE FMul(F4, pos[i][j], qperp)]]

\* pos *= qperp, or pos[:, i] *= qpar on the rsd axis and qperp on the others.
Rescale(obj, pos) ==
    IF obj.scaled
    THEN IF obj.rsd = "none"
         THEN [i \in 1..Len(pos) |-> [j \in 1..3 |-> FMul(F4, pos[i][j], qperp)]]
         ELSE [i \in 1..Len(pos) |-> [j \in 1..3 |->
                  IF j = Dir(obj.rsd)
                  THEN FMul(F4, pos[i][j], qpar)
                  ELSE FMul(F4, pos[i][j], qperp)]]
    ELSE pos

\* What logger.info is given, in order, up to the point readall got to.
LogLines(obj, nobj, rank, converted) ==
    <<[msg |-> "total number of objects read", n |-> nobj]>>
    \o (IF converted /\ obj.scaled
        THEN <<[msg |-> "multiplying by qperp", n |-> 0]>>
             \o (IF obj.rsd # "none" /\ rank = 0
                 THEN <<[msg |-> "multiplying by qpar", n |-> 0]>>
                 ELSE <<>>)
        ELSE <<>>)

\* readall that rescales the velocities with the positions.
readall_velscaled(obj, installed, lines) ==
    LET data == read_csv(lines)
        vel  == ScaleVelocity(AsF4(data, <<4, 5, 6>>), obj.velf)
        pos  == Rescale(obj, RedshiftSpace(obj, AsF4(data, <<1, 2, 3>>), vel))
        none == [Position |-> <<>>, Velocity |-> <<>>, Weight |-> <<>>]
    IN  IF ~installed
        THEN [obj |-> obj, raised |-> "ImportError", nobj |-> 0, P |-> none]
        ELSE IF ~(Converts(data, <<1, 2, 3>>) /\ Converts(data, <<4, 5, 6>>))
        THEN [obj |-> obj, raised |-> "ValueError", nobj |-> Len(data), P |-> none]
        ELSE [obj |-> obj, raised |-> "", nobj |-> Len(data),
              P |-> [Position |-> pos, Velocity |-> Rescale(obj, vel),
                     Weight |-> [i \in 1..Len(pos) |-> One]]]

\* readall that rescales the volume too: self.BoxSize *= qperp on each read.
readall_volume(obj, installed, lines) ==
    LET data == read_csv(lines)
        vel  == ScaleVelocity(AsF4(data, <<4, 5, 6>>), obj.velf)
        pos  == Rescale(obj, RedshiftSpace(obj, AsF4(data, <<1, 2, 3>>), vel))
        none == [Position |-> <<>>, Velocity |-> <<>>, Weight |-> <<>>]
        vol  == IF obj.scaled
                THEN [obj EXCEPT !.BoxSize = [i \in 1..3 |-> FMul(F8, obj.BoxSize[i], qperp)]]
                ELSE obj
    IN  IF ~installed
        THEN [obj |-> obj, raised |-> "ImportError", nobj |-> 0, P |-> none]
        ELSE IF ~(Converts(data, <<1, 2, 3>>) /\ Converts(data, <<4, 5, 6>>))
        THEN [obj |-> obj, raised |-> "ValueError", nobj |-> Len(data), P |-> none]
        ELSE [obj |-> vol, raised |-> "", nobj |-> Len(data),
              P |-> [Position |-> pos, Velocity |-> vel,
                     Weight |-> [i \in 1..Len(pos) |-> One]]]

\* readall up to the dictionary P: the attributes of obj afterwards, the
\* exception raised ("" for none), the number of rows read and P.
readall(obj, installed, lines) ==
    LET data == read_csv(lines)
        vel  == ScaleVelocity(AsF4(data, <<4, 5, 6>>), obj.velf)
        pos  == Rescale(obj, RedshiftSpace(obj, AsF4(data, <<1, 2, 3>>), vel))
        none == [Position |-> <<>>, Velocity |-> <<>>, Weight |-> <<>>]
    IN  IF ~installed
        THEN [obj |-> obj, raised |-> "ImportError", nobj |-> 0, P |-> none]
        ELSE IF ~(Converts(data, <<1, 2, 3>>) /\ Converts(data, <<4, 5, 6>>))
        THEN [obj |-> obj, raised |-> "ValueError", nobj |-> Len(data), P |-> none]
        ELSE [obj |-> obj, raised |-> "", nobj |-> Len(data),
              P |-> [Position |-> pos, Velocity |-> vel,
                     Weight |-> [i \in 1..Len(pos) |-> One]]]

\* readall that yields the catalogue in batches of bunchsize records.
Yield_chunked(P, columns, bunchsize) ==
    LET n == Len(P.Weight)
        k == (n + bunchsize - 1) \div bunchsize
    IN  [b \in 1..k |->
            [i \in 1..Len(columns) |->
                SubSeq(P[columns[i]], (b - 1) * bunchsize + 1,
                       IF b * bunchsize < n THEN b * bunchsize ELSE n)]]

\* yield [P[key] for key in columns]: the batches the generator yields
\* before it ends.  A key P does not hold raises KeyError.
Yield(P, columns, bunchsize) ==
    << [i \in 1..Len(columns) |-> P[columns[i]]] >>

Known(columns) ==
    \A i \in 1..Len(columns) : columns[i] \in {"Position", "Velocity", "Weight"}

\* What the caller of readall(columns, comm, bunchsize) observes, r being
\* what readall did up to P.
Observed(obj, r, columns, rank, bunchsize) ==
    IF r.raised = "ImportError"
    THEN [status |-> "ImportError", columns |-> columns, batches |-> <<>>, log |-> <<>>]
    ELSE IF r.raised # ""
    THEN [status |-> r.raised, columns |-> columns, batches |-> <<>>,
          log |-> LogLines(obj, r.nobj, rank, FALSE)]
    ELSE IF ~Known(columns)
    THEN [status |-> "KeyError", columns |-> columns, batches |-> <<>>,
          log |-> LogLines(obj, r.nobj, rank, TRUE)]
    ELSE [status |-> "ok", columns |-> columns,
          batches |-> Yield(r.P, columns, bunchsize),
          log |-> LogLines(obj, r.nobj, rank, TRUE)]

Init ==
    /\ args \in Args
    /\ pandas \in BOOLEAN
    /\ self = NewInstance
    /\ out = NoOut
    /\ ref = NoRef
    /\ reconfigured = FALSE
    /\ again = FALSE
    /\ conf = NewInstance
    /\ first = NewInstance

\* The host calls initialize(args); it may do so again.
Initialize ==
    /\ self' = initialize(self, args)
    /\ conf' = self'
    /\ first' = IF self.configured THEN first ELSE self'
    /\ out' = NoOut
    /\ reconfigured' = (reconfigured \/ ref.status # "none")
    /\ again' = FALSE
    /\ UNCHANGED <<args, pandas, ref>>

\* A caller runs the generator readall(columns, comm, bunchsize) to its end;
\* the host reads only from an instance it has initialized.
Readall ==
    /\ self.configured
    /\ \E r \in {readall(self, pandas, Catalogue(self.path))} :
       \E columns \in ColumnChoices, rank \in Ranks, bunchsize \in BunchSizes :
          LET o == Observed(self, r, columns, rank, bunchsize)
          IN  /\ self' = r.obj
              /\ out' = o
              /\ ref' = IF ref.status = "none"
                        THEN [status |-> o.status, columns |-> o.columns,
                              batches |-> o.batches]
                        ELSE ref
    /\ again' = (out.status # "none")
    /\ UNCHANGED <<args, pandas, reconfigured, conf, first>>

Next == Initialize \/ Readall

Spec == Init /\ [][Next]_vars

(***************************************************************************)
(* The properties.  They are stated over args, the configuration the host  *)
(* gave, and the catalogue at args.path, the file as pandas reads it.      *)
(***************************************************************************)
Data == read_csv(Catalogue(args.path))

NumRows == Len(Data)

\* The position and the velocity of row i as float32, the input of the transform.
X(i, j) == AsType(F4, Data[i][j])

V(i, j) == AsType(F4, Data[i][3 + j])

Asked(key) == \E c \in 1..Len(out.columns) : out.columns[c] = key

\* The array the batch holds for key, when out is a batch and key was asked for.
Column(key) ==
    out.batches[1][CHOOSE c \in 1..Len(out.columns) : out.columns[c] = key]

Finite(a) == a.k = "fin"

\* 0 <= a < b for finite a and b.
InBox(a, b) == ~IsNeg(a) /\ DLess(a, b)

ExpectedVelocity == [i \in 1..NumRows |-> [j \in 1..3 |-> FMul(F4, V(i, j), args.velf)]]

\* C1: after initialize, and after any number of readall calls, BoxSize is
\* the configured box size scaled per axis: unchanged when scaled is false,
\* times qperp on every axis when scaled and rsd is None, times qpar on the
\* rsd axis and times qperp on the other two when scaled and rsd is an axis;
\* _BoxSize0 is the configured box size.
C1_BoxSizeScaledPerAxis ==
    self.configured =>
        /\ self.BoxSize0 = args.BoxSize
        /\ \A i \in 1..3 :
              self.BoxSize[i] =
                  IF ~args.scaled THEN args.BoxSize[i]
                  ELSE IF args.rsd # "none" /\ i = Dir(args.rsd)
                  THEN FMul(F8, args.BoxSize[i], qpar)
                  ELSE FMul(F8, args.BoxSize[i], qperp)

\* C1's case: a box of three different lengths, scaled with rsd = y, after a read.
C1_Witness ==
    /\ out.status = "ok" /\ again
    /\ args.scaled /\ args.rsd = "y" /\ args.BoxSize = BoxChoice(2)
    /\ self.BoxSize0 = BoxChoice(2)
    /\ self.BoxSize[2] = FMul(F8, Dy(0, 10, 0), qpar)
    /\ self.BoxSize[3] = FMul(F8, Dy(0, 12, 0), qperp)

\* C2: when rsd selects axis d, the component along d of every numeric
\* output position lies in [0, _BoxSize0[d]).
C2_WrappedIntoOriginalBox ==
    (out.status = "ok" /\ args.rsd # "none" /\ Asked("Position")) =>
        \A i \in 1..NumRows :
            LET y == Column("Position")[i][Dir(args.rsd)]
            IN  Finite(y) => InBox(y, self.BoxSize0[Dir(args.rsd)])

\* C3: with scaled false and rsd None, Position is the input position,
\* Velocity the input velocity times velf, Weight N ones.
C3_PlainRead ==
    (out.status = "ok" /\ ~args.scaled /\ args.rsd = "none") =>
        /\ Asked("Position") =>
              Column("Position") = [i \in 1..NumRows |-> [j \in 1..3 |-> X(i, j)]]
        /\ Asked("Velocity") => Column("Velocity") = ExpectedVelocity
        /\ Asked("Weight") => Column("Weight") = [i \in 1..NumRows |-> One]

C3_Witness ==
    /\ out.status = "ok" /\ ~args.scaled /\ args.rsd = "none"
    /\ args.velf = Dy(0, 2, 0) /\ args.path = 2
    /\ out.columns = <<"Position", "Velocity", "Weight">>
    /\ Len(Column("Weight")) = 2
    /\ Column("Velocity")[2][1] = Dy(1, 103, -1)
    /\ Column("Position")[2][3] = FromDecimal(F4, <<1>>, 1)

\* C4: when rsd selects axis d, position[d] is ((x_d + velf * v_d) mod
\* _BoxSize0[d]), times qpar when scaled; every other position[i] is x_i,
\* times qperp when scaled, with no shift and no wrap.
C4_ShiftWrapThenRescale ==
    (out.status = "ok" /\ args.rsd # "none" /\ Asked("Position")) =>
        \A i \in 1..NumRows : \A j \in 1..3 :
            Column("Position")[i][j] =
                IF j = Dir(args.rsd)
                THEN LET w == FRemainder(F4, FAdd(F4, X(i, j), FMul(F4, V(i, j), args.velf)),
                                         args.BoxSize[j])
                     IN  IF args.scaled THEN FMul(F4, w, qpar) ELSE w
                ELSE IF args.scaled THEN FMul(F4, X(i, j), qperp) ELSE X(i, j)

\* C4's case: BoxSize 10, rsd = x, velf = 2, scaled, the records
\* 0 0 0 1 0 0 and 5 5 5 0 1 0.
C4_Witness ==
    /\ out.status = "ok" /\ Asked("Position")
    /\ args.path = 1 /\ args.BoxSize = BoxChoice(1) /\ args.rsd = "x"
    /\ args.velf = Dy(0, 2, 0) /\ args.scaled
    /\ Column("Position")[1] = <<FMul(F4, Dy(0, 2, 0), qpar), Zero, Zero>>
    /\ Column("Position")[2] = <<FMul(F4, Dy(0, 5, 0), qpar), FMul(F4, Dy(0, 5, 0), qperp),
                                 FMul(F4, Dy(0, 5, 0), qperp)>>

\* C5: whatever scaled, rsd and velf are, Velocity is the input velocity
\* times velf: neither the AP factors nor the shift and wrap change it.
C5_VelocityOnlyTimesVelf ==
    (out.status = "ok" /\ Asked("Velocity")) => Column("Velocity") = ExpectedVelocity

C5_Witness ==
    /\ out.status = "ok" /\ Asked("Velocity")
    /\ args.scaled /\ args.rsd = "x" /\ args.velf = Dy(0, 2, 0) /\ args.path = 1
    /\ Column("Velocity")[1] = <<Dy(0, 2, 0), Zero, Zero>>

C7_ReadsRepeat ==
    /\ self.configured => self = conf
    /\ (~reconfigured /\ out.status # "none" /\ out.columns = ref.columns) =>
          (out.status = ref.status /\ out.batches = ref.batches)

C7_Witness ==
    /\ ~reconfigured /\ again /\ out.status = "ok" /\ out.columns = ref.columns
    /\ args.scaled /\ args.rsd = "x" /\ Asked("Position") /\ args.path = 2

\* The records of the file: its lines that are no comments.
Records == SelectSeq(Catalogue(args.path), IsData)

ShortRecord == \E i \in 1..Len(Records) : Len(Records[i].fields) < Len(Names)

StrField ==
    \E i \in 1..Len(Records) : \E j \in 1..Len(Records[i].fields) :
        Records[i].fields[j] = Str

C9_OneBatchOfAllRecords ==
    out.status = "ok" =>
        /\ Len(out.batches) = 1
        /\ Len(out.batches[1]) = Len(out.columns)
        /\ \A c \in 1..Len(out.columns) :
              /\ Len(out.batches[1][c]) = Len(Records)
              /\ out.batches[1][c] = readall(conf, TRUE, Catalogue(args.path)).P[out.columns[c]]

\* C9's case: two records read on a rank other than 0 (no line about qpar
\* is logged), Weight asked for before Position.
C9_Witness ==
    /\ out.status = "ok" /\ out.columns = <<"Weight", "Position">>
    /\ args.scaled /\ args.rsd = "x" /\ Len(out.log) = 2
    /\ Len(out.batches) = 1 /\ Len(Records) = 2
    /\ out.batches[1][1] = <<One, One>>
    /\ Len(out.batches[1][2][2]) = 3

\* C10: when rsd selects axis d, the component along d of every numeric
\* output position lies in [0, BoxSize[d]), BoxSize as initialize left it.
C10_InsideRescaledBox ==
    (out.status = "ok" /\ args.rsd # "none" /\ Asked("Position")) =>
        \A i \in 1..NumRows :
            LET y == Column("Position")[i][Dir(args.rsd)]
            IN  Finite(y) => InBox(y, self.BoxSize[Dir(args.rsd)])

====
